---------------------------- MODULE Spec2Model ----------------------------
(***************************************************************************)
(* Schema normalizer of the dairy analytics backend:                       *)
(* standardize_columns (backend/data_processor.py) and the post-processing *)
(* of upload_file (backend/main.py).                                       *)
(*                                                                         *)
(* Text is modelled as a sequence of one-character strings, so that the    *)
(* regular expressions, the slug clean-up and the parsers are computed     *)
(* character by character.  A cell of the table is a record                *)
(*   [k |-> kind, n |-> number, s |-> text]                                *)
(* with kind "float" (n is the value in units of 10^-5), "nan", "inf"      *)
(* (n is the sign), "str" (s is the text), "ts" (a timestamp, n is         *)
(* yyyymmdd), "nat" (the null date) and "none" (Python None).              *)
(***************************************************************************)
EXTENDS Integers, Sequences, FiniteSets, TLC

VARIABLES
    columns,         \* df.columns as handed to standardize_columns
    raw,             \* the rows as handed to the current pass
    names,           \* df.columns of the working frame
    rows,            \* the rows of the working frame, each [idx, cells]
    dtypes,          \* per column: "float" or "object"
    new_columns,     \* the rename dict built by the header loop
    used_standards,  \* standard names already assigned
    i,               \* position of the header loop in df.columns
    pc,              \* position in the pipeline
    pass             \* 1 on the first run, 2 on a re-run over the output

vars == <<columns, raw, names, rows, dtypes, new_columns, used_standards, i, pc, pass>>

---------------------------------------------------------------------------
(* Bounds of the model *)

MaxHdrCols == 2
MaxCols == 2
MaxCells == 4

---------------------------------------------------------------------------
(* Characters *)

LowerSeq == <<"a","b","c","d","e","f","g","h","i","j","k","l","m",
              "n","o","p","q","r","s","t","u","v","w","x","y","z">>
UpperSeq == <<"A","B","C","D","E","F","G","H","I","J","K","L","M",
              "N","O","P","Q","R","S","T","U","V","W","X","Y","Z">>
DigitSeq == <<"0","1","2","3","4","5","6","7","8","9">>

Range(f) == {f[x] : x \in DOMAIN f}
SetMin(S) == CHOOSE x \in S : \A y \in S : x <= y
SetMax(S) == CHOOSE x \in S : \A y \in S : x >= y

IsAlnum(c) == c \in Range(LowerSeq) \cup Range(UpperSeq) \cup Range(DigitSeq)
\* \w of Python's re: letters, digits and the underscore
IsWordChar(c) == IsAlnum(c) \/ c = "_"

ToLower(c) ==
    IF c \in Range(UpperSeq)
    THEN LowerSeq[CHOOSE x \in DOMAIN UpperSeq : UpperSeq[x] = c]
    ELSE c

\* str.lower()
Lower(s) == [x \in 1..Len(s) |-> ToLower(s[x])]

\* str.strip(chars): drop the characters of cs at both ends
StripChars(s, cs) ==
    LET keep == {x \in 1..Len(s) : s[x] \notin cs}
    IN  IF keep = {} THEN <<>> ELSE SubSeq(s, SetMin(keep), SetMax(keep))

\* str(col).lower().strip()
NormalizeHeader(col) == StripChars(Lower(col), {" "})

---------------------------------------------------------------------------
(* The keyword table *)

S_date == <<"d", "a", "t", "e">>
S_cow_id == <<"c", "o", "w", "_", "i", "d">>
S_milk_yield == <<"m", "i", "l", "k", "_", "y", "i", "e", "l", "d">>
S_fat_percentage == <<"f", "a", "t", "_", "p", "e", "r", "c", "e", "n", "t", "a", "g", "e">>
S_protein_percentage == <<"p", "r", "o", "t", "e", "i", "n", "_", "p", "e", "r", "c", "e", "n", "t", "a", "g", "e">>
S_feed_intake == <<"f", "e", "e", "d", "_", "i", "n", "t", "a", "k", "e">>

mappings ==
  << [standard |-> S_date, keywords |-> {
         <<"d", "a", "t", "e">>,
         <<"t", "i", "m", "e">>,
         <<"d", "a", "y">>,
         <<"t", "i", "m", "e", "s", "t", "a", "m", "p">>,
         <<"r", "e", "c", "o", "r", "d", "_", "d", "a", "t", "e">> }],
     [standard |-> S_cow_id, keywords |-> {
         <<"i", "d">>,
         <<"t", "a", "g">>,
         <<"c", "o", "w">>,
         <<"a", "n", "i", "m", "a", "l">>,
         <<"a", "n", "i", "m", "a", "l", "_", "i", "d">>,
         <<"c", "o", "w", "_", "t", "a", "g">> }],
     [standard |-> S_milk_yield, keywords |-> {
         <<"y", "i", "e", "l", "d">>,
         <<"v", "o", "l">>,
         <<"l", "i", "t", "e", "r">>,
         <<"a", "m", "o", "u", "n", "t">>,
         <<"q", "t", "y">>,
         <<"p", "r", "o", "d", "u", "c", "t", "i", "o", "n">>,
         <<"m", "i", "l", "k", "_", "a", "m", "o", "u", "n", "t">>,
         <<"m", "i", "l", "k", "_", "p", "r", "o", "d", "u", "c", "t", "i", "o", "n">> }],
     [standard |-> S_fat_percentage, keywords |-> {
         <<"f", "a", "t">>,
         <<"c", "r", "e", "a", "m">>,
         <<"f", "a", "t", "_", "c", "o", "n", "t", "e", "n", "t">>,
         <<"f", "a", "t", "_", "%">> }],
     [standard |-> S_protein_percentage, keywords |-> {
         <<"p", "r", "o", "t">>,
         <<"p", "r", "o", "t", "e", "i", "n">>,
         <<"p", "r", "o", "t", "e", "i", "n", "_", "c", "o", "n", "t", "e", "n", "t">>,
         <<"p", "r", "o", "t", "e", "i", "n", "_", "%">> }],
     [standard |-> S_feed_intake, keywords |-> {
         <<"f", "e", "e", "d">>,
         <<"f", "o", "o", "d">>,
         <<"r", "a", "t", "i", "o", "n">>,
         <<"i", "n", "t", "a", "k", "e">>,
         <<"d", "m", "i">>,
         <<"d", "r", "y", "_", "m", "a", "t", "t", "e", "r", "_", "i", "n", "t", "a", "k", "e">> }] >>

StandardNames == {mappings[f].standard : f \in DOMAIN mappings}

---------------------------------------------------------------------------
(* Header resolution: lines 21-48 of data_processor.py *)

WordAt(s, q) == q \in 1..Len(s) /\ IsWordChar(s[q])

\* \b between s[p] and s[p+1]
WordBoundary(s, p) == WordAt(s, p) # WordAt(s, p + 1)

\* re.search(r'\b' + k + r'\b', s); every keyword is literal text
SearchWord(k, s) ==
    \E p \in 0..(Len(s) - Len(k)) :
        /\ SubSeq(s, p + 1, p + Len(k)) = k
        /\ WordBoundary(s, p)
        /\ WordBoundary(s, p + Len(k))

\* any(re.search(...) for k in keywords)
Hits(f, col_lower) == \E k \in mappings[f].keywords : SearchWord(k, col_lower)

\* the fields the inner loop can assign: a keyword hits and the standard is unused
Candidates(col_lower, used) ==
    {f \in DOMAIN mappings : Hits(f, col_lower) /\ mappings[f].standard \notin used}

NonEmptyChar(c) == c # ""

\* re.sub(r'[^a-zA-Z0-9]+', '_', col_lower).strip('_')
CleanName(col_lower) ==
    LET marks == [x \in 1..Len(col_lower) |->
                    IF IsAlnum(col_lower[x]) THEN col_lower[x]
                    ELSE IF x = 1 \/ IsAlnum(col_lower[x - 1]) THEN "_" ELSE ""]
    IN  StripChars(SelectSeq(marks, NonEmptyChar), {"_"})

Suffix_original == <<"_", "o", "r", "i", "g", "i", "n", "a", "l">>

\* lines 41-45
FallbackName(clean_name, used) ==
    IF clean_name \in StandardNames /\ clean_name \notin used
    THEN clean_name \o Suffix_original
    ELSE clean_name

\* new_columns[col] = name
DictPut(d, key, val) ==
    [h \in DOMAIN d \cup {key} |-> IF h = key THEN val ELSE d[h]]

EmptyDict == [h \in {} |-> <<>>]

\* one iteration of `for col in df.columns`
LoopStep ==
    /\ pc = "loop"
    /\ i <= Len(columns)
    /\ LET col       == columns[i]
           col_lower == NormalizeHeader(col)
           cands     == Candidates(col_lower, used_standards)
       IN  IF cands # {}
           THEN LET standard == mappings[SetMin(cands)].standard
                IN  /\ new_columns' = DictPut(new_columns, col, standard)
                    /\ used_standards' = used_standards \cup {standard}
           ELSE /\ new_columns' =
                       DictPut(new_columns, col,
                               FallbackName(CleanName(col_lower), used_standards))
                /\ UNCHANGED used_standards
    /\ i' = i + 1
    /\ UNCHANGED <<columns, raw, names, rows, dtypes, pc, pass>>

\* df = df.rename(columns=new_columns)
Rename ==
    /\ pc = "loop"
    /\ i > Len(columns)
    /\ names' = [j \in 1..Len(columns) |-> new_columns[columns[j]]]
    /\ pc' = "date"
    /\ UNCHANGED <<columns, raw, rows, dtypes, new_columns, used_standards, i, pass>>

---------------------------------------------------------------------------
(* Cells *)

Scale == 10 ^ 5

Float(n) == [k |-> "float", n |-> n, s |-> <<>>]
NaN      == [k |-> "nan",   n |-> 0, s |-> <<>>]
Inf(sg)  == [k |-> "inf",   n |-> sg, s |-> <<>>]
Str(s)   == [k |-> "str",   n |-> 0, s |-> s]
Ts(n)    == [k |-> "ts",    n |-> n, s |-> <<>>]
NaT      == [k |-> "nat",   n |-> 0, s |-> <<>>]
None     == [k |-> "none",  n |-> 0, s |-> <<>>]

IsDigit(c) == c \in Range(DigitSeq)
DigitVal(c) == (CHOOSE x \in DOMAIN DigitSeq : DigitSeq[x] = c) - 1

RECURSIVE ParseNat(_)
ParseNat(s) ==
    IF s = <<>> THEN 0
    ELSE ParseNat(SubSeq(s, 1, Len(s) - 1)) * 10 + DigitVal(s[Len(s)])

\* n written with exactly w digits
DigitsOf(n, w) == [x \in 1..w |-> DigitSeq[((n \div (10 ^ (w - x))) % 10) + 1]]

RECURSIVE NatToStr(_)
NatToStr(n) ==
    IF n < 10 THEN <<DigitSeq[n + 1]>>
    ELSE NatToStr(n \div 10) \o <<DigitSeq[(n % 10) + 1]>>

---------------------------------------------------------------------------
(* pd.to_datetime(..., errors='coerce') and .dt.strftime('%Y-%m-%d') *)

IsLeap(y) == (y % 4 = 0 /\ y % 100 # 0) \/ y % 400 = 0

DaysIn(y, m) ==
    IF m = 2 THEN (IF IsLeap(y) THEN 29 ELSE 28)
    ELSE IF m \in {4, 6, 9, 11} THEN 30 ELSE 31

IsIsoShape(s) ==
    /\ Len(s) = 10
    /\ s[5] = "-" /\ s[8] = "-"
    /\ \A x \in {1, 2, 3, 4, 6, 7, 9, 10} : IsDigit(s[x])

\* years a nanosecond Timestamp holds in full
IsCalendarDate(y, m, d) ==
    /\ y \in 1678..2261
    /\ m \in 1..12
    /\ d \in 1..DaysIn(y, m)

\* one cell of pd.to_datetime(df["date"], errors='coerce'); the date columns of
\* the model hold text written year-month-day, other text, or nothing
ToDatetime(c) ==
    IF c.k = "ts" THEN c
    ELSE IF c.k = "str" /\ IsIsoShape(c.s)
    THEN LET y == ParseNat(SubSeq(c.s, 1, 4))
             m == ParseNat(SubSeq(c.s, 6, 7))
             d == ParseNat(SubSeq(c.s, 9, 10))
         IN  IF IsCalendarDate(y, m, d) THEN Ts(y * 10000 + m * 100 + d) ELSE NaT
    ELSE NaT

\* the format written without zero padding
StrftimeUnpadded(c) ==
    IF c.k = "ts"
    THEN Str(NatToStr(c.n \div 10000) \o <<"-">> \o
             NatToStr((c.n \div 100) % 100) \o <<"-">> \o
             NatToStr(c.n % 100))
    ELSE NaN

\* one cell of .dt.strftime('%Y-%m-%d')
Strftime(c) ==
    IF c.k = "ts"
    THEN Str(DigitsOf(c.n \div 10000, 4) \o <<"-">> \o
             DigitsOf((c.n \div 100) % 100, 2) \o <<"-">> \o
             DigitsOf(c.n % 100, 2))
    ELSE NaN

IsNull(c) == c.k \in {"nan", "nat", "none"}

---------------------------------------------------------------------------
(* pd.to_numeric(..., errors='coerce').fillna(0) *)

T_inf == <<"i", "n", "f">>
T_infinity == <<"i", "n", "f", "i", "n", "i", "t", "y">>
T_nan == <<"n", "a", "n">>
T_None == <<"N", "o", "n", "e">>

\* an unsigned decimal literal: digits, optionally a point and digits
IsDecimal(u) ==
    LET dots == {x \in 1..Len(u) : u[x] = "."}
    IN  /\ Cardinality(dots) <= 1
        /\ \A x \in 1..Len(u) : IsDigit(u[x]) \/ u[x] = "."
        /\ \E x \in 1..Len(u) : IsDigit(u[x])

\* the value of an unsigned decimal literal, in units of 1/Scale
DecimalValue(u) ==
    LET dots == {x \in 1..Len(u) : u[x] = "."}
        p    == IF dots = {} THEN Len(u) + 1 ELSE SetMin(dots)
        ip   == SubSeq(u, 1, p - 1)
        fp   == SubSeq(u, p + 1, Len(u))
        fp5  == SubSeq(fp \o <<"0", "0", "0", "0", "0">>, 1, 5)
    IN  ParseNat(ip) * Scale + ParseNat(fp5)

ParseFloat(s) ==
    LET neg  == s # <<>> /\ s[1] = "-"
        u    == IF s # <<>> /\ s[1] \in {"-", "+"} THEN Tail(s) ELSE s
        sg   == IF neg THEN -1 ELSE 1
        low  == Lower(u)
    IN  IF low \in {T_inf, T_infinity} THEN Inf(sg)
        ELSE IF low = T_nan THEN NaN
        ELSE IF IsDecimal(u) THEN Float(sg * DecimalValue(u))
        ELSE NaN

\* one cell of pd.to_numeric(df[col], errors='coerce')
ToNumeric(c) ==
    IF c.k \in {"float", "inf", "nan"} THEN c
    ELSE IF c.k = "str" THEN ParseFloat(c.s)
    ELSE NaN

\* the fill left out
FillNaSkipped(c) == c

\* one cell of .fillna(0)
FillNa(c) == IF IsNull(c) THEN Float(0) ELSE c

---------------------------------------------------------------------------
(* .astype(str).str.replace(r'\.0$', '', regex=True) *)

\* repr of a float that has at most five decimal places
FloatToStr(n) ==
    LET a    == IF n < 0 THEN -n ELSE n
        frac == DigitsOf(a % Scale, 5)
        last == {x \in 1..5 : frac[x] # "0"}
        keep == IF last = {} THEN 1 ELSE SetMax(last)
    IN  (IF n < 0 THEN <<"-">> ELSE <<>>) \o NatToStr(a \div Scale) \o <<".">> \o
        SubSeq(frac, 1, keep)

\* one cell of .astype(str)
AsTypeStr(c) ==
    CASE c.k = "str"   -> c
      [] c.k = "float" -> Str(FloatToStr(c.n))
      [] c.k = "inf"   -> Str((IF c.n < 0 THEN <<"-">> ELSE <<>>) \o T_inf)
      [] c.k = "nan"   -> Str(T_nan)
      [] c.k = "none"  -> Str(T_None)
      [] OTHER         -> c

\* one cell of .str.replace(r'\.0$', '', regex=True)
StripDotZero(c) ==
    IF c.k = "str" /\ Len(c.s) >= 2 /\ SubSeq(c.s, Len(c.s) - 1, Len(c.s)) = <<".", "0">>
    THEN Str(SubSeq(c.s, 1, Len(c.s) - 2))
    ELSE c

---------------------------------------------------------------------------
(* The frame: columns by position, rows with their index label *)

ColumnsNamed(nm, name) == {j \in 1..Len(nm) : nm[j] = name}

RECURSIVE KeepRows(_, _)
\* the rows of rs whose cell in column j is not null, in order
KeepRows(rs, j) ==
    IF rs = <<>> THEN <<>>
    ELSE IF IsNull(Head(rs).cells[j]) THEN KeepRows(Tail(rs), j)
    ELSE <<Head(rs)>> \o KeepRows(Tail(rs), j)

\* the drop left out
DropNaSkipped(rs, j) == rs

\* df.dropna(subset=["date"])
DropNa(rs, j) == KeepRows(rs, j)

\* one cell of line 66
CoerceNumeric(c) == FillNa(ToNumeric(c))

\* one cell of line 71
CoerceId(c) == StripDotZero(AsTypeStr(c))

\* one cell of .replace([np.inf, -np.inf], 0)
ReplaceInfCell(c) == IF c.k = "inf" THEN Float(0) ELSE c

\* one cell of .where(pd.notnull(df), None) in a column that takes None
NullToNone(c) == IF IsNull(c) THEN None ELSE c

\* one cell of .where(pd.notnull(df), None) in a float64 column that is kept
\* float64: None is cast back to NaN
NullToNaN(c) == IF IsNull(c) THEN NaN ELSE c

\* round(4) of a value in units of 1/Scale, half to even
Round4(n) ==
    LET a  == IF n < 0 THEN -n ELSE n
        q  == a \div 10
        r  == a % 10
        up == r > 5 \/ (r = 5 /\ q % 2 = 1)
        v  == (IF up THEN q + 1 ELSE q) * 10
    IN  IF n < 0 THEN -v ELSE v

RoundCell(c) == IF c.k = "float" THEN Float(Round4(c.n)) ELSE c

\* the cell operation a step applies down a column
Apply(op, c) ==
    CASE op = "to_datetime"  -> ToDatetime(c)
      [] op = "strftime"     -> Strftime(c)
      [] op = "to_numeric"   -> CoerceNumeric(c)
      [] op = "astype_str"   -> CoerceId(c)
      [] op = "replace_inf"  -> ReplaceInfCell(c)
      [] op = "where_none"   -> NullToNone(c)
      [] op = "where_nan"    -> NullToNaN(c)
      [] op = "round"        -> RoundCell(c)

\* df[col] = op(df[col]) for every column position in J
MapColumns(rs, J, op) ==
    [r \in 1..Len(rs) |->
        [rs[r] EXCEPT !.cells =
            [j \in 1..Len(rs[r].cells) |->
                IF j \in J THEN Apply(op, rs[r].cells[j]) ELSE rs[r].cells[j]]]]

\* a column of floats and missing values is float64, anything else object
InferDtype(rs, j) ==
    IF rs # <<>> /\ \A r \in 1..Len(rs) : rs[r].cells[j].k \in {"float", "nan", "inf"}
    THEN "float"
    ELSE "object"

SetDtype(dt, J, t) == [j \in 1..Len(dt) |-> IF j \in J THEN t ELSE dt[j]]

---------------------------------------------------------------------------
(* Type inference and cleaning: lines 50-73 of data_processor.py *)

\* lines 55-59 for the date column at position j
CleanDate(rs, j) ==
    MapColumns(DropNa(MapColumns(rs, {j}, "to_datetime"), j), {j}, "strftime")

\* 1. Handle Date.  With two columns named date, df["date"] is a frame and
\* pd.to_datetime raises.
HandleDate ==
    /\ pc = "date"
    /\ LET d == ColumnsNamed(names, S_date)
       IN  IF d = {}
           THEN /\ pc' = "numeric"
                /\ UNCHANGED <<rows, dtypes>>
           ELSE IF Cardinality(d) > 1
           THEN /\ pc' = "error"
                /\ UNCHANGED <<rows, dtypes>>
           ELSE /\ rows' = CleanDate(rows, SetMin(d))
                /\ dtypes' = SetDtype(dtypes, d, "object")
                /\ pc' = "numeric"
    /\ UNCHANGED <<columns, raw, names, new_columns, used_standards, i, pass>>

numeric_cols == <<S_milk_yield, S_fat_percentage, S_protein_percentage, S_feed_intake>>

\* the coercion applied to every column
NumericTargetsAll(nm) == 1..Len(nm)

\* the positions line 66 assigns to
NumericTargets(nm) == {j \in 1..Len(nm) : nm[j] \in Range(numeric_cols)}

\* 2. Handle Numeric Columns.  With two columns of one numeric name, df[col]
\* is a frame and pd.to_numeric raises.
HandleNumeric ==
    /\ pc = "numeric"
    /\ LET t == NumericTargets(names)
       IN  IF \E c \in Range(numeric_cols) : Cardinality(ColumnsNamed(names, c)) > 1
           THEN /\ pc' = "error"
                /\ UNCHANGED <<rows, dtypes>>
           ELSE /\ rows' = MapColumns(rows, t, "to_numeric")
                /\ dtypes' = SetDtype(dtypes, t, "float")
                /\ pc' = "id"
    /\ UNCHANGED <<columns, raw, names, new_columns, used_standards, i, pass>>

\* 3. Handle ID, then return df.  With two columns named cow_id, df["cow_id"]
\* is a frame without .str and the access raises.
HandleID ==
    /\ pc = "id"
    /\ LET d == ColumnsNamed(names, S_cow_id)
       IN  IF Cardinality(d) > 1
           THEN /\ pc' = "error"
                /\ UNCHANGED <<rows, dtypes>>
           ELSE /\ rows' = MapColumns(rows, d, "astype_str")
                /\ dtypes' = SetDtype(dtypes, d, "object")
                /\ pc' = "returned"
    /\ UNCHANGED <<columns, raw, names, new_columns, used_standards, i, pass>>

---------------------------------------------------------------------------
(* Post-processing of upload_file: lines 42-47 of main.py *)

AllColumns == 1..Len(names)

ReplaceInf ==
    /\ pc = "returned"
    /\ rows' = MapColumns(rows, AllColumns, "replace_inf")
    /\ pc' = "where"
    /\ UNCHANGED <<columns, raw, names, dtypes, new_columns, used_standards, i, pass>>

FloatColumns(dt) == {j \in 1..Len(dt) : dt[j] = "float"}

\* processed_df.where(pd.notnull(processed_df), None).  An object column takes
\* None.  What a float64 column does depends on the pandas the build installs
\* (the repository pins none): it is either cast to object and takes None, or
\* kept float64, where None becomes NaN again.
WhereNotNull ==
    /\ pc = "where"
    /\ \E casts \in BOOLEAN :
         LET kept == IF casts THEN {} ELSE FloatColumns(dtypes)
             cast == {j \in FloatColumns(dtypes) \ kept :
                         \E r \in 1..Len(rows) : IsNull(rows[r].cells[j])}
         IN  /\ rows' = MapColumns(MapColumns(rows, AllColumns \ kept, "where_none"),
                                   kept, "where_nan")
             /\ dtypes' = SetDtype(dtypes, cast, "object")
    /\ pc' = "round"
    /\ UNCHANGED <<columns, raw, names, new_columns, used_standards, i, pass>>

\* for col in select_dtypes(include=[np.number]).columns: round(4)
RoundFloats ==
    /\ pc = "round"
    /\ rows' = MapColumns(rows, FloatColumns(dtypes), "round")
    /\ pc' = "responded"
    /\ UNCHANGED <<columns, raw, names, dtypes, new_columns, used_standards, i, pass>>

---------------------------------------------------------------------------
(* Running a step again on its own output *)

\* the header loop and the rename, run on the names they produced
Rerun ==
    /\ pc = "date"
    /\ pass = 1
    /\ columns' = names
    /\ new_columns' = EmptyDict
    /\ used_standards' = {}
    /\ i' = 1
    /\ pass' = 2
    /\ pc' = "loop"
    /\ UNCHANGED <<raw, names, rows, dtypes>>

\* lines 50-73, run on the table they returned
Recoerce ==
    /\ pc = "returned"
    /\ pass = 1
    /\ raw' = rows
    /\ pass' = 2
    /\ pc' = "date"
    /\ UNCHANGED <<columns, names, rows, dtypes, new_columns, used_standards, i>>

---------------------------------------------------------------------------
(* Inputs *)

H_pre_format == <<"f", "o", "r", "m", "a", "t", "_">>
H_pre_cow == <<"c", "o", "w", "_">>
H_pre_milk == <<"m", "i", "l", "k", "_">>
H_date == <<"d", "a", "t", "e">>
H_Day == <<"D", "a", "y">>
H_id == <<"i", "d">>
H_tag == <<"t", "a", "g">>
H_fat == <<"f", "a", "t">>
H_yield == <<"y", "i", "e", "l", "d">>
H_notes == <<"n", "o", "t", "e", "s">>
H_milk_yield == H_pre_milk \o H_yield
H_cow_id == H_pre_cow \o H_id

HdrPrefix == {<<>>, H_pre_format, H_pre_cow, H_pre_milk}
HdrStem == {H_date, H_Day, H_id, H_tag, H_fat, H_yield, H_notes}
HdrSuffix == {<<>>, <<" ">>, <<" ", "%">>, <<"_", "%">>, <<"!">>}

\* the headers of the header-resolution runs: prefix, stem, suffix
Headers == {p \o m \o x : p \in HdrPrefix, m \in HdrStem, x \in HdrSuffix}

\* the headers of the tables that carry rows
TableHeaders == {H_Day, H_date, H_yield, H_milk_yield, H_id, H_cow_id, H_notes}

C_iso == Str(<<"2", "0", "2", "4", "-", "0", "1", "-", "0", "5">>)
C_feb30 == Str(<<"2", "0", "2", "4", "-", "0", "2", "-", "3", "0">>)
C_notadate == Str(<<"n", "o", "t", "-", "a", "-", "d", "a", "t", "e">>)
C_42 == Str(<<"4", "2", ".", "0">>)
C_na == Str(<<"N", "/", "A">>)

\* what a date column holds: a date, an impossible date, other text, nothing
DateCells == {C_iso, C_feb30, C_notadate, NaN}

\* what any other column holds: nothing, infinity, -1.23456, "42.0", "N/A"
OtherCells == {NaN, Inf(1), Float(-123456), C_42, C_na}

CellsFor(h) == IF Hits(1, NormalizeHeader(h)) THEN DateCells ELSE OtherCells

RowsFor(cs) ==
    {f \in [1..Len(cs) -> DateCells \cup OtherCells] :
        \A j \in 1..Len(cs) : f[j] \in CellsFor(cs[j])}

StartAt(cs, body) ==
    /\ columns = cs
    /\ names = cs
    /\ rows = [r \in 1..Len(body) |-> [idx |-> r, cells |-> body[r]]]
    /\ raw = rows
    /\ dtypes = [j \in 1..Len(cs) |-> InferDtype(rows, j)]
    /\ new_columns = EmptyDict
    /\ used_standards = {}
    /\ i = 1
    /\ pc = "loop"
    /\ pass = 1

\* a table of at most MaxCols columns and MaxCells cells
Init ==
    \E n \in 1..MaxCols : \E cs \in [1..n -> TableHeaders] :
      \E m \in 0..(MaxCells \div n) : \E body \in [1..m -> RowsFor(cs)] :
        StartAt(cs, body)

\* df.columns alone: at most MaxHdrCols headers, no rows
InitHdr ==
    \E n \in 1..MaxHdrCols : \E cs \in [1..n -> Headers] : StartAt(cs, <<>>)

Next ==
    \/ LoopStep
    \/ Rename
    \/ HandleDate
    \/ HandleNumeric
    \/ HandleID
    \/ ReplaceInf
    \/ WhereNotNull
    \/ RoundFloats

NextHdr ==
    \/ LoopStep
    \/ Rename
    \/ Rerun

NextClean ==
    \/ LoopStep
    \/ Rename
    \/ HandleDate
    \/ HandleNumeric
    \/ HandleID
    \/ Recoerce

Spec == Init /\ [][Next]_vars
SpecHdr == InitHdr /\ [][NextHdr]_vars
SpecClean == Init /\ [][NextClean]_vars

---------------------------------------------------------------------------
(* Properties of header resolution, checked under SpecHdr *)

H_format_date == H_pre_format \o H_date
H_fat_pct == H_fat \o <<" ", "%">>

\* C1: once the columns are renamed, at most one column carries each canonical
\* field name, whatever the header sequence.
C1_AtMostOneClaim ==
    pc = "date" =>
        \A F \in StandardNames : Cardinality(ColumnsNamed(names, F)) <= 1

\* C2: a header that is assigned no canonical field is named by its cleaned
\* slug, with _original appended exactly when the slug is a canonical field
\* name that an earlier header has already claimed.
C2_FallbackNaming ==
    [][(pc = "loop" /\ i <= Len(columns) /\ i' = i + 1
          /\ used_standards' = used_standards)
       => LET slug == CleanName(NormalizeHeader(columns[i]))
          IN  new_columns'[columns[i]] =
                 IF slug \in StandardNames /\ slug \in used_standards
                 THEN slug \o Suffix_original
                 ELSE slug]_vars

RECURSIVE UsedBefore(_, _)
\* the fields claimed by the headers before position j, taking the headers in
\* column order and giving each the earliest unclaimed field that it hits
UsedBefore(cs, j) ==
    IF j = 1 THEN {}
    ELSE LET u == UsedBefore(cs, j - 1)
             c == Candidates(NormalizeHeader(cs[j - 1]), u)
         IN  IF c = {} THEN u ELSE u \cup {mappings[SetMin(c)].standard}

\* the field claimed by the header at position j, or <<>> when it claims none
ClaimOf(cs, j) ==
    LET c == Candidates(NormalizeHeader(cs[j]), UsedBefore(cs, j))
    IN  IF c = {} THEN <<>> ELSE mappings[SetMin(c)].standard

\* C3: every header that claims a field (the earliest field in table order
\* that hits it and that no earlier header claimed) is the output column of
\* that name, and no other column carries a canonical field name; this for
\* any header sequence, repeated headers included.
C3_ClaimPriority ==
    pc = "date" =>
        \A j \in 1..Len(columns) :
            /\ ClaimOf(columns, j) # <<>> => names[j] = ClaimOf(columns, j)
            /\ names[j] \in StandardNames => ClaimOf(columns, j) = names[j]

\* the maximal runs of letters and digits of s, as <<first, last>>
TokenRuns(s) ==
    {w \in {<<a, b>> : a \in 1..Len(s), b \in 1..Len(s)} :
        /\ w[1] <= w[2]
        /\ \A x \in w[1]..w[2] : IsAlnum(s[x])
        /\ (w[1] = 1 \/ ~IsAlnum(s[w[1] - 1]))
        /\ (w[2] = Len(s) \/ ~IsAlnum(s[w[2] + 1]))}

\* a keyword of field f is one of the tokens of s
TokenHits(f, s) ==
    \E w \in TokenRuns(s) : SubSeq(s, w[1], w[2]) \in mappings[f].keywords

\* C4: for every header processed, the regex test hits a field exactly when
\* one of the field's keywords is a whole token of the header split on
\* non-alphanumeric characters; "format_date" is not renamed fat_percentage
\* and "fat %" is.
C4_WholeWordMatching ==
    \A j \in 1..Len(columns) :
        j < i =>
            /\ \A f \in DOMAIN mappings :
                  Hits(f, NormalizeHeader(columns[j])) <=>
                      TokenHits(f, NormalizeHeader(columns[j]))
            /\ columns[j] = H_format_date =>
                  new_columns[columns[j]] # S_fat_percentage
            /\ (j = 1 /\ i = 2 /\ columns[j] = H_fat_pct) =>
                  new_columns[columns[j]] = S_fat_percentage

\* C10: header resolution run again on the names it produced changes none of
\* them, and a first header that is exactly a canonical field name keeps that
\* name.
C10_ResolutionFixpoint ==
    /\ (pc = "date" /\ pass = 2) => names = columns
    /\ (i = 2 /\ columns[1] \in StandardNames) => new_columns[columns[1]] = columns[1]

---------------------------------------------------------------------------
(* Properties of the cleaning steps, checked under Spec *)

\* the position in the input of the row that carries index label x
RawRow(x) == raw[x]

\* C5: with a date column, the date step keeps exactly the rows whose date
\* cell parses, in their order and whole, none with a null date, so the row
\* count falls by the number of unparseable dates; without one it drops no row.
C5_DateRowDropping ==
    [][(pc = "date" /\ pc' = "numeric")
       => LET d == ColumnsNamed(names, S_date)
          IN  IF d = {} THEN rows' = rows
              ELSE LET j    == SetMin(d)
                       kept == {r \in 1..Len(rows) : ToDatetime(rows[r].cells[j]).k = "ts"}
                   IN  /\ Len(rows') = Len(rows) - Cardinality((1..Len(rows)) \ kept)
                       /\ {rows'[r].idx : r \in 1..Len(rows')} = {rows[r].idx : r \in kept}
                       /\ \A r \in 1..Len(rows'), q \in 1..Len(rows') :
                              r < q => rows'[r].idx < rows'[q].idx
                       /\ \A r \in 1..Len(rows') :
                              /\ ~IsNull(rows'[r].cells[j])
                              /\ \E r0 \in kept :
                                    /\ rows[r0].idx = rows'[r].idx
                                    /\ \A c \in 1..Len(names) :
                                          c # j => rows'[r].cells[c] = rows[r0].cells[c]]_vars

\* a table with a date column from which the date step dropped a row and kept one
C5_Witness ==
    /\ pc = "numeric"
    /\ ColumnsNamed(names, S_date) # {}
    /\ Len(names) = 2
    /\ Len(rows) = 1
    /\ Len(raw) = 2

\* C6: the numeric step turns every cell of a canonical numeric column that
\* does not parse (an empty one included, "N/A" for one) into 0, keeps the
\* value of every cell that parses, and removes no row.
C6_NumericCoercion ==
    [][(pc = "numeric" /\ pc' = "id")
       => /\ Len(rows') = Len(rows)
          /\ \A r \in 1..Len(rows) :
                /\ rows'[r].idx = rows[r].idx
                /\ \A j \in 1..Len(names) :
                      names[j] \in Range(numeric_cols) =>
                          LET c == rows[r].cells[j]
                              v == ToNumeric(c)
                          IN  /\ rows'[r].cells[j] = IF v.k = "nan" THEN Float(0) ELSE v
                              /\ c = C_na => rows'[r].cells[j] = Float(0)
                              /\ c.k = "float" => rows'[r].cells[j] = c]_vars

\* a milk_yield column whose "N/A" cell became 0 next to a negative value kept
C6_Witness ==
    /\ pc = "id"
    /\ \E j \in 1..Len(names) :
          /\ names[j] = S_milk_yield
          /\ \E r \in 1..Len(rows), q \in 1..Len(rows) :
                /\ RawRow(rows[r].idx).cells[j] = C_na
                /\ rows[r].cells[j] = Float(0)
                /\ rows[q].cells[j] = Float(-123456)

\* C7: in the rows upload_file returns, every numeric value is finite or an
\* explicit null: no NaN and no infinity is left in any column.
C7_NoNaNInfinity ==
    pc = "responded" =>
        \A r \in 1..Len(rows) : \A j \in 1..Len(names) :
            rows[r].cells[j].k \notin {"nan", "inf"}

\* C9: standardize_columns keeps the column order and leaves the cells of
\* every column whose new name is not a canonical field name as they were in
\* the input, for every row it returns.
C9_Frame ==
    pc = "returned" =>
        /\ Len(names) = Len(columns)
        /\ \A j \in 1..Len(columns) : names[j] = new_columns[columns[j]]
        /\ \A r \in 1..Len(rows) :
              /\ Len(rows[r].cells) = Len(columns)
              /\ \A j \in 1..Len(names) :
                    names[j] \notin StandardNames =>
                        rows[r].cells[j] = RawRow(rows[r].idx).cells[j]

\* a returned row with a changed canonical cell beside an untouched "N/A" in
\* a column named milk_yield_original
C9_Witness ==
    /\ pc = "returned"
    /\ \E r \in 1..Len(rows) : \E j \in 1..Len(names), c \in 1..Len(names) :
          /\ names[j] = S_milk_yield \o Suffix_original
          /\ rows[r].cells[j] = C_na
          /\ names[c] \in StandardNames
          /\ rows[r].cells[c] # RawRow(rows[r].idx).cells[c]

---------------------------------------------------------------------------
(* Idempotence of the cleaning steps, checked under SpecClean *)

EndsDotZero(s) == Len(s) >= 2 /\ SubSeq(s, Len(s) - 1, Len(s)) = <<".", "0">>

IsDateText(c) ==
    /\ c.k = "str"
    /\ IsIsoShape(c.s)
    /\ IsCalendarDate(ParseNat(SubSeq(c.s, 1, 4)), ParseNat(SubSeq(c.s, 6, 7)),
                      ParseNat(SubSeq(c.s, 9, 10)))

\* dates written YYYY-MM-DD, finite floats, identifiers that are text without
\* a trailing .0
Normalized(nm, rs) ==
    \A r \in 1..Len(rs) : \A j \in 1..Len(nm) :
        /\ nm[j] = S_date => IsDateText(rs[r].cells[j])
        /\ nm[j] \in Range(numeric_cols) => rs[r].cells[j].k = "float"
        /\ nm[j] = S_cow_id => rs[r].cells[j].k = "str" /\ ~EndsDotZero(rs[r].cells[j].s)

\* C8: the cleaning steps applied to a table that is already normalized
\* return it unchanged: same rows, same order, same cells.
C8_Idempotence ==
    (pc = "returned" /\ Normalized(names, raw)) => rows = raw

\* a second run over a normalized output that has a date and an identifier
C8_Witness ==
    /\ pc = "returned"
    /\ pass = 2
    /\ Normalized(names, raw)
    /\ Len(rows) = 2
    /\ ColumnsNamed(names, S_date) # {}
    /\ ColumnsNamed(names, S_cow_id) # {}

=============================================================================
